---- MODULE Spec2Model ----
(***************************************************************************)
(* Model of kcavo's cost-and-optimization engine: the Pricing model and    *)
(* the Cost Calculator (pkg/cost), the Optimizer (pkg/optimize) and the    *)
(* GPU Analyzer (pkg/gpu).                                                 *)
(*                                                                         *)
(* Units.  The Go code computes in float64; the model computes the same    *)
(* products exactly, in integers:                                          *)
(*   CPU quantities     tenths of a core       (4.0 cores = 40)            *)
(*   memory quantities  GiB                    (16*1024^3 bytes = 16)      *)
(*   GPU quantities     devices                                            *)
(*   hourly rates       1/1000 dollar per hour (0.024 = 24)                *)
(*   costs              1/10000 dollar         (100 dollars = 1000000)     *)
(*   savings            1/100000 dollar        (30 dollars = 3000000)      *)
(* A resource-map entry that is absent is None; an entry that is present   *)
(* with value zero is 0.                                                   *)
(***************************************************************************)
EXTENDS Integers, Sequences, FiniteSets, TLC

VARIABLES pods, nodes, costs, pricing, results, recommendations, analysis, pc,
          command, cluster, calls, err

vars == <<pods, nodes, costs, pricing, results, recommendations, analysis, pc,
          command, cluster, calls, err>>

\* the state of one command invocation (cmd): the command, what the cluster holds, the
\* calls made so far and the error returned
invocation == <<command, cluster, calls, err>>

\* the packages called directly, outside any command
NoInvocation ==
    /\ command = ""
    /\ cluster = [pods |-> <<>>, nodes |-> <<>>]
    /\ calls = <<>>
    /\ err = ""

\* ---------------------------------------------------------------- bounds
MaxPods == 2
MaxContainers == 2
MaxNodes == 2
MaxCosts == 2
MaxGPUPods == 3
MaxQuantity == 7
MaxScale == 4
MaxTopN == 1

\* ------------------------------------------------------- data and helpers
None == -1

Present(q) == q # None

\* the value of a map lookup m[key]: the zero Quantity when the key is absent
Lookup(q) == IF Present(q) THEN q ELSE 0

PodRunning == "Running"

PodNames == <<"pod-a", "pod-b", "pod-c", "pod-d">>

NodeNames == <<"node-a", "node-b", "node-c", "node-d">>

\* corev1.Container.Resources: the Requests and Limits maps, keys cpu, memory, nvidia.com/gpu
Ctr(rc, rm, rg, lc, lm, lg) ==
    [Requests |-> [cpu |-> rc, memory |-> rm, gpu |-> rg],
     Limits   |-> [cpu |-> lc, memory |-> lm, gpu |-> lg]]

Pod(name, phase, containers) ==
    [Name |-> name, Namespace |-> "default", NodeName |-> "node-a",
     Phase |-> phase, Containers |-> containers]

\* corev1.Node: Status.Capacity and Status.Allocatable (keys cpu, memory, nvidia.com/gpu)
\* and the labels nvidia.com/gpu.product and accelerator ("" when the label is absent)
Res(cpu, memory, gpu) == [cpu |-> cpu, memory |-> memory, gpu |-> gpu]

Node(name, capacity, allocatable, product, accelerator) ==
    [Name |-> name, Capacity |-> capacity, Allocatable |-> allocatable,
     Labels |-> [product |-> product, accelerator |-> accelerator]]

SeqsUpTo(S, n) == UNION {[1..k -> S] : k \in 0..n}

\* pods is a sequence of at most MaxPods pods over the given phases and container
\* shapes, each with at most MaxContainers containers, named by position
PodsIn(phases, shapes) ==
    \E n \in 0..MaxPods :
        \E s \in [1..n -> phases \X SeqsUpTo(shapes, MaxContainers)] :
            pods = [i \in 1..n |-> Pod(PodNames[i], s[i][1], s[i][2])]

RECURSIVE SumSeq(_)
SumSeq(s) == IF s = <<>> THEN 0 ELSE s[1] + SumSeq(Tail(s))

\* ----------------------------------------------------------------- pricing
HoursPerMonth == 730

DefaultPricing ==
    [CPUHourlyCost |-> 24, MemoryGBHourly |-> 3, GPUHourlyCost |-> 900, StorageGBMonthly |-> 100]

GCPPricing ==
    [CPUHourlyCost |-> 22, MemoryGBHourly |-> 3, GPUHourlyCost |-> 850, StorageGBMonthly |-> 100]

AzurePricing ==
    [CPUHourlyCost |-> 25, MemoryGBHourly |-> 3, GPUHourlyCost |-> 950, StorageGBMonthly |-> 120]

\* cores in tenths of a core, rate in 1/1000 dollar: the product is in 1/10000 dollar
CalculateCPUCost(p, cores) == cores * p.CPUHourlyCost * HoursPerMonth

\* gb = bytes / 2^30; the factor 10 brings GiB * (1/1000 dollar) to 1/10000 dollar
CalculateMemoryCost(p, gb) == gb * 10 * p.MemoryGBHourly * HoursPerMonth

\* variant: at least one GPU is billed
CalculateGPUCostAtLeastOne(p, count) ==
    (IF count = 0 THEN 1 ELSE count) * 10 * p.GPUHourlyCost * HoursPerMonth

CalculateGPUCost(p, count) == count * 10 * p.GPUHourlyCost * HoursPerMonth

\* gb = bytes / 2^30, times the monthly rate: no hours-per-month factor
CalculateStorageCost(p, gb) == gb * 10 * p.StorageGBMonthly

\* --------------------------------------------------------- cost calculator
\* the loop of calculatePodCost: Quantity.Add of every present entry
SumQuantity(containers, map, key) ==
    SumSeq([k \in 1..Len(containers) |-> Lookup(containers[k][map][key])])

\* variant: only the Requests entry is counted
CostGPUCountRequestsOnly(containers) == SumQuantity(containers, "Requests", "gpu")

\* gpuCount is incremented from both the Requests and the Limits entry
CostGPUCount(containers) ==
    SumQuantity(containers, "Requests", "gpu") + SumQuantity(containers, "Limits", "gpu")

\* variant: the request sum is billed even when it is zero
ToUseRequestOnly(request, limit) == request

\* cpuToUse / memToUse: the request sum, or the limit sum if the request sum IsZero
ToUse(request, limit) == IF request = 0 THEN limit ELSE request

\* variant: TotalCost leaves the GPU cost out
calculatePodCostNoGPUInTotal(p, pod) ==
    LET cpuRequest == SumQuantity(pod.Containers, "Requests", "cpu")
        memRequest == SumQuantity(pod.Containers, "Requests", "memory")
        cpuLimit   == SumQuantity(pod.Containers, "Limits", "cpu")
        memLimit   == SumQuantity(pod.Containers, "Limits", "memory")
        gpuCount   == CostGPUCount(pod.Containers)
        cpuCost    == CalculateCPUCost(p, ToUse(cpuRequest, cpuLimit))
        memCost    == CalculateMemoryCost(p, ToUse(memRequest, memLimit))
        gpuCost    == CalculateGPUCost(p, gpuCount)
    IN  [Name |-> pod.Name, Namespace |-> pod.Namespace, Node |-> pod.NodeName,
         CPUCost |-> cpuCost, MemoryCost |-> memCost, GPUCost |-> gpuCost,
         GPUCount |-> gpuCount, TotalCost |-> cpuCost + memCost,
         CPURequest |-> cpuRequest, MemRequest |-> memRequest,
         CPULimit |-> cpuLimit, MemLimit |-> memLimit]

calculatePodCost(p, pod) ==
    LET cpuRequest == SumQuantity(pod.Containers, "Requests", "cpu")
        memRequest == SumQuantity(pod.Containers, "Requests", "memory")
        cpuLimit   == SumQuantity(pod.Containers, "Limits", "cpu")
        memLimit   == SumQuantity(pod.Containers, "Limits", "memory")
        gpuCount   == CostGPUCount(pod.Containers)
        cpuCost    == CalculateCPUCost(p, ToUse(cpuRequest, cpuLimit))
        memCost    == CalculateMemoryCost(p, ToUse(memRequest, memLimit))
        gpuCost    == CalculateGPUCost(p, gpuCount)
    IN  [Name |-> pod.Name, Namespace |-> pod.Namespace, Node |-> pod.NodeName,
         CPUCost |-> cpuCost, MemoryCost |-> memCost, GPUCost |-> gpuCost,
         GPUCount |-> gpuCount, TotalCost |-> cpuCost + memCost + gpuCost,
         CPURequest |-> cpuRequest, MemRequest |-> memRequest,
         CPULimit |-> cpuLimit, MemLimit |-> memLimit]

\* variant: no pod is skipped
RECURSIVE AppendCostsAllPhases(_, _)
AppendCostsAllPhases(p, ps) ==
    IF ps = <<>> THEN <<>>
    ELSE <<calculatePodCost(p, ps[1])>> \o AppendCostsAllPhases(p, Tail(ps))

\* the first loop of CalculatePodCosts: one entry per pod it does not skip, in input order
RECURSIVE AppendCosts(_, _)
AppendCosts(p, ps) ==
    IF ps = <<>> THEN <<>>
    ELSE IF ps[1].Phase # PodRunning THEN AppendCosts(p, Tail(ps))
    ELSE <<calculatePodCost(p, ps[1])>> \o AppendCosts(p, Tail(ps))

IndexPerms(n) == {f \in [1..n -> 1..n] : \A i, j \in 1..n : f[i] = f[j] => i = j}

\* the comparison passed to sort.Slice
CostLess(a, b) == a.TotalCost > b.TotalCost

\* variant: the slice is left as it is
SortSliceUnsorted(s) == {s}

\* sort.Slice(results, less): the slice is left in some order of its elements in which
\* no element is less than one before it; the order of equal elements is not specified
SortSlice(s) ==
    {r \in {[k \in 1..Len(s) |-> s[f[k]]] : f \in IndexPerms(Len(s))} :
        \A i, j \in 1..Len(s) : i < j => ~CostLess(r[j], r[i])}

\* ---------------------------------------------------------------- actions
CalculatePodCosts ==
    /\ pc = "start"
    /\ results' \in SortSlice(AppendCosts(pricing, pods))
    /\ pc' = "costed"
    /\ UNCHANGED invocation
    /\ UNCHANGED <<pods, nodes, costs, pricing, recommendations, analysis>>

\* ------------------------------------------- cost calculator: specification
CostShapes ==
    {Ctr(5, None, 1, 20, 4, None),
     Ctr(0, 2, None, 10, 8, 1)}

CostPhases == {"Running", "Pending", ""}

NoAnalysis ==
    [Nodes |-> <<>>, Pods |-> <<>>, TotalGPUs |-> 0, AllocatedGPUs |-> 0, AvailableGPUs |-> 0,
     UtilizationPct |-> [num |-> 0, den |-> 1], Recommendations |-> <<>>]

InitCost ==
    /\ PodsIn(CostPhases, CostShapes)
    /\ pricing \in {DefaultPricing, GCPPricing, AzurePricing}
    /\ nodes = <<>>
    /\ costs = <<>>
    /\ results = <<>>
    /\ recommendations = <<>>
    /\ analysis = NoAnalysis
    /\ NoInvocation
    /\ pc = "start"

NextCost == CalculatePodCosts

SpecCost == InitCost /\ [][NextCost]_vars

\* ------------------------------------------------- cost calculator: claims
Costed == pc = "costed"

\* the input pod an entry of the result was computed from (pods are named by position)
PodIndexOf(e) == CHOOSE i \in 1..Len(pods) : pods[i].Name = e.Name

RunningIndexes == {i \in 1..Len(pods) : pods[i].Phase = "Running"}

\* C1: every entry of the result of CalculatePodCosts has TotalCost = CPUCost +
\* MemoryCost + GPUCost, with CPUCost = billable cores x cpuHourly x 730, MemoryCost =
\* billable GiB x memGBHourly x 730 and GPUCost = GPUCount x gpuHourly x 730.
C1_TotalIsSumOfParts ==
    Costed =>
        \A k \in 1..Len(results) :
            LET e   == results[k]
                pod == pods[PodIndexOf(e)]
                cpuR == SumQuantity(pod.Containers, "Requests", "cpu")
                cpuL == SumQuantity(pod.Containers, "Limits", "cpu")
                memR == SumQuantity(pod.Containers, "Requests", "memory")
                memL == SumQuantity(pod.Containers, "Limits", "memory")
            IN  /\ e.TotalCost = e.CPUCost + e.MemoryCost + e.GPUCost
                /\ e.CPUCost = (IF cpuR # 0 THEN cpuR ELSE cpuL) * pricing.CPUHourlyCost * 730
                /\ e.MemoryCost = (IF memR # 0 THEN memR ELSE memL) * 10 * pricing.MemoryGBHourly * 730
                /\ e.GPUCost = e.GPUCount * 10 * pricing.GPUHourlyCost * 730

\* an entry whose three parts are all non-zero
C1_Witness ==
    /\ Costed
    /\ \E k \in 1..Len(results) :
        /\ results[k].CPUCost > 0
        /\ results[k].MemoryCost > 0
        /\ results[k].GPUCost > 0

\* C2: the result has exactly one entry for each Running pod and none for a pod in
\* another phase: its length is the number of Running pods, and each (name, namespace)
\* occurs in it as often as among the Running input pods.
C2_ExactlyTheRunningPods ==
    Costed =>
        /\ Len(results) = Cardinality(RunningIndexes)
        /\ \A i \in 1..Len(pods) :
            Cardinality({k \in 1..Len(results) :
                            /\ results[k].Name = pods[i].Name
                            /\ results[k].Namespace = pods[i].Namespace})
              = Cardinality({j \in RunningIndexes :
                            /\ pods[j].Name = pods[i].Name
                            /\ pods[j].Namespace = pods[i].Namespace})

\* a Running pod is kept while a Pending pod with a CPU request is left out
C2_Witness ==
    /\ Costed
    /\ Len(results) = 1
    /\ \E i \in 1..Len(pods) :
        /\ pods[i].Phase = "Pending"
        /\ SumQuantity(pods[i].Containers, "Requests", "cpu") > 0

\* C3: the result is sorted descending by TotalCost over every adjacent pair.
C3_SortedDescending ==
    Costed =>
        \A k \in 1..(Len(results) - 1) : results[k].TotalCost >= results[k + 1].TotalCost

\* the sort moved a later, more expensive pod in front of an earlier, cheaper one
C3_Witness ==
    /\ Costed
    /\ Len(results) >= 2
    /\ results[1].TotalCost > results[2].TotalCost
    /\ PodIndexOf(results[1]) > PodIndexOf(results[2])

\* C4: billable CPU is the sum of the CPU requests if that sum is non-zero, else the
\* sum of the CPU limits; billable memory follows the same rule independently; when
\* request and limit sums are both zero the cost is zero.
C4_BillableRequestElseLimit ==
    Costed =>
        \A k \in 1..Len(results) :
            LET e   == results[k]
                pod == pods[PodIndexOf(e)]
                cpuR == SumQuantity(pod.Containers, "Requests", "cpu")
                cpuL == SumQuantity(pod.Containers, "Limits", "cpu")
                memR == SumQuantity(pod.Containers, "Requests", "memory")
                memL == SumQuantity(pod.Containers, "Limits", "memory")
            IN  /\ cpuR # 0 => e.CPUCost = CalculateCPUCost(pricing, cpuR)
                /\ cpuR = 0 => e.CPUCost = CalculateCPUCost(pricing, cpuL)
                /\ memR # 0 => e.MemoryCost = CalculateMemoryCost(pricing, memR)
                /\ memR = 0 => e.MemoryCost = CalculateMemoryCost(pricing, memL)
                /\ (cpuR = 0 /\ cpuL = 0) => e.CPUCost = 0
                /\ (memR = 0 /\ memL = 0) => e.MemoryCost = 0

\* a pod billed on its CPU request and on its memory limit, both limits being set
C4_Witness ==
    /\ Costed
    /\ \E k \in 1..Len(results) :
        LET pod == pods[PodIndexOf(results[k])]
        IN  /\ SumQuantity(pod.Containers, "Requests", "cpu") > 0
            /\ SumQuantity(pod.Containers, "Limits", "cpu") > SumQuantity(pod.Containers, "Requests", "cpu")
            /\ SumQuantity(pod.Containers, "Requests", "memory") = 0
            /\ SumQuantity(pod.Containers, "Limits", "memory") > 0
            /\ results[k].CPUCost = CalculateCPUCost(pricing, SumQuantity(pod.Containers, "Requests", "cpu"))
            /\ results[k].MemoryCost = CalculateMemoryCost(pricing, SumQuantity(pod.Containers, "Limits", "memory"))

\* ---------------------------------------------------------------- optimizer
Recommendation(title, name, description, savings, priority, category) ==
    [Title |-> <<title, name>>, Description |-> description, Savings |-> savings,
     Priority |-> priority, Category |-> category]

\* the test of one container in findOverProvisionedPods: skipped when the CPU request
\* or the memory request IsZero, else flagged above 4 cores or above 16 GiB
OverProvisioned(c) ==
    LET cpuReq == Lookup(c.Requests.cpu)
        memReq == Lookup(c.Requests.memory)
    IN  /\ ~(cpuReq = 0 \/ memReq = 0)
        /\ (cpuReq > 40 \/ memReq > 16)

\* variant: the position in costs is not checked, a missing entry counts as cost 0
RECURSIVE RightsizeContainersUnchecked(_, _, _, _)
RightsizeContainersUnchecked(pod, containers, i, cs) ==
    IF containers = <<>> THEN <<>>
    ELSE (IF OverProvisioned(containers[1])
          THEN <<Recommendation("Rightsize over-provisioned pod: ", pod.Name,
                                "This pod requests significant resources.",
                                (IF i <= Len(cs) THEN cs[i].TotalCost ELSE 0) * 3,
                                "High", "Rightsizing")>>
          ELSE <<>>)
         \o RightsizeContainersUnchecked(pod, Tail(containers), i, cs)

\* the inner loop over the containers of pods[i] (i counts from 1, Go's i + 1)
RECURSIVE RightsizeContainers(_, _, _, _)
RightsizeContainers(pod, containers, i, cs) ==
    IF containers = <<>> THEN <<>>
    ELSE (IF OverProvisioned(containers[1]) /\ i <= Len(cs)
          THEN <<Recommendation("Rightsize over-provisioned pod: ", pod.Name,
                                "This pod requests significant resources.",
                                cs[i].TotalCost * 3, "High", "Rightsizing")>>
          ELSE <<>>)
         \o RightsizeContainers(pod, Tail(containers), i, cs)

RECURSIVE findOverProvisionedFrom(_, _, _)
findOverProvisionedFrom(ps, cs, i) ==
    IF i > Len(ps) THEN <<>>
    ELSE (IF ps[i].Phase # PodRunning THEN <<>>
          ELSE RightsizeContainers(ps[i], ps[i].Containers, i, cs))
         \o findOverProvisionedFrom(ps, cs, i + 1)

findOverProvisionedPods(ps, cs) == findOverProvisionedFrom(ps, cs, 1)

\* len(container.Resources.Requests) > 0
HasRequests(c) ==
    Present(c.Requests.cpu) \/ Present(c.Requests.memory) \/ Present(c.Requests.gpu)

\* variant: pods of every phase are counted
WithoutRequestsAnyPhase(ps) ==
    Cardinality({i \in 1..Len(ps) :
                    \A k \in 1..Len(ps[i].Containers) : ~HasRequests(ps[i].Containers[k])})

\* count of findPodsWithoutRequests
WithoutRequests(ps) ==
    Cardinality({i \in 1..Len(ps) :
                    /\ ps[i].Phase = PodRunning
                    /\ \A k \in 1..Len(ps[i].Containers) : ~HasRequests(ps[i].Containers[k])})

findPodsWithoutRequests(ps) ==
    LET count == WithoutRequests(ps)
    IN  IF count > 0
        THEN <<Recommendation("Add resource requests to pods without them", "",
                              <<count, "pods don't have resource requests.">>,
                              0, "Medium", "Best Practice")>>
        ELSE <<>>

\* Calculator.CalculateNodeCost: CPU, memory and GPU capacity
CalculateNodeCost(p, node) ==
    LET cpuCost  == CalculateCPUCost(p, Lookup(node.Capacity.cpu))
        memCost  == CalculateMemoryCost(p, Lookup(node.Capacity.memory))
        gpuCount == IF Present(node.Capacity.gpu) THEN node.Capacity.gpu ELSE 0
        gpuCost  == CalculateGPUCost(p, gpuCount)
    IN  cpuCost + memCost + gpuCost

\* Optimizer.estimateNodeCost, with the Optimizer's own pricing (DefaultPricing)
estimateNodeCost(node) ==
    LET cpuCost == CalculateCPUCost(DefaultPricing, Lookup(node.Capacity.cpu))
        memCost == CalculateMemoryCost(DefaultPricing, Lookup(node.Capacity.memory))
    IN  cpuCost + memCost

\* cpuAllocatable > cpuCapacity * 0.8
Underutilized(node) ==
    Lookup(node.Allocatable.cpu) * 10 > Lookup(node.Capacity.cpu) * 8

RECURSIVE findUnusedResources(_)
findUnusedResources(ns) ==
    IF ns = <<>> THEN <<>>
    ELSE (IF Underutilized(ns[1])
          THEN <<Recommendation("Consider downsizing or removing underutilized node: ",
                                ns[1].Name,
                                "This node appears to have low resource allocation.",
                                estimateNodeCost(ns[1]) * 5, "Medium", "Unused")>>
          ELSE <<>>)
         \o findUnusedResources(Tail(ns))

\* gpuCount of findExpensiveGPUUsage: the Requests entries only
RequestedGPUs(pod) == SumQuantity(pod.Containers, "Requests", "gpu")

\* variant: 70% itself counts
GPUDominatesAtLeast(c) == c.GPUCost * 10 >= c.TotalCost * 7

\* costs[i].GPUCost > costs[i].TotalCost * 0.7
GPUDominates(c) == c.GPUCost * 10 > c.TotalCost * 7

RECURSIVE findExpensiveGPUFrom(_, _, _)
findExpensiveGPUFrom(ps, cs, i) ==
    IF i > Len(ps) THEN <<>>
    ELSE (IF /\ ps[i].Phase = PodRunning
             /\ RequestedGPUs(ps[i]) > 0
             /\ i <= Len(cs)
             /\ GPUDominates(cs[i])
          THEN <<Recommendation("Review GPU usage for pod: ", ps[i].Name,
                                "This pod uses GPUs which account for most of its cost.",
                                cs[i].GPUCost * 5, "High", "GPU")>>
          ELSE <<>>)
         \o findExpensiveGPUFrom(ps, cs, i + 1)

findExpensiveGPUUsage(ps, cs) == findExpensiveGPUFrom(ps, cs, 1)

Swap(r, j) == [r EXCEPT ![j] = r[j + 1], ![j + 1] = r[j]]

\* the inner loop of the bubble sort, j counting from 1: for j < len - i - 1 in Go
RECURSIVE BubblePass(_, _, _)
BubblePass(r, i, j) ==
    IF j > Len(r) - i - 1 THEN r
    ELSE BubblePass(IF r[j].Savings < r[j + 1].Savings THEN Swap(r, j) ELSE r, i, j + 1)

RECURSIVE BubbleFrom(_, _)
BubbleFrom(r, i) ==
    IF i >= Len(r) - 1 THEN r
    ELSE BubbleFrom(BubblePass(r, i, 1), i + 1)

\* variant: equal Savings are swapped too
sortRecommendationsSwapEqual(r) ==
    LET RECURSIVE Pass(_, _, _)
        Pass(q, i, j) ==
            IF j > Len(q) - i - 1 THEN q
            ELSE Pass(IF q[j].Savings <= q[j + 1].Savings THEN Swap(q, j) ELSE q, i, j + 1)
        RECURSIVE From(_, _)
        From(q, i) == IF i >= Len(q) - 1 THEN q ELSE From(Pass(q, i, 1), i + 1)
    IN  From(r, 0)

sortRecommendationsBySavings(r) == BubbleFrom(r, 0)

\* the four heuristics of Analyze, appended in the order of the code
Heuristics(ps, ns, cs) ==
    findOverProvisionedPods(ps, cs)
        \o findPodsWithoutRequests(ps)
        \o findUnusedResources(ns)
        \o findExpensiveGPUUsage(ps, cs)

Analyze ==
    /\ pc = "start"
    /\ recommendations' = sortRecommendationsBySavings(Heuristics(pods, nodes, costs))
    /\ pc' = "optimized"
    /\ UNCHANGED invocation
    /\ UNCHANGED <<pods, nodes, costs, pricing, results, analysis>>

\* ---------------------------------------------------- optimizer: specification
\* the pods given to Analyze: phase and containers
OptPodShapes ==
    {<<"Running", <<Ctr(50, None, None, None, None, None)>>>>,
     <<"Running", <<Ctr(50, 8, 1, None, None, None)>>>>,
     <<"Running", <<Ctr(40, 16, None, 40, 16, None), Ctr(10, 17, None, None, None, None)>>>>,
     <<"Running", <<Ctr(None, None, None, 10, 4, 1)>>>>,
     <<"Running", <<>>>>,
     <<"Running", <<Ctr(45, 20, 2, None, None, None), Ctr(0, 17, None, None, None, None)>>>>,
     <<"Pending", <<Ctr(50, 17, 1, None, None, None)>>>>,
     <<"Succeeded", <<Ctr(None, None, None, 10, 4, None)>>>>}

\* a cost entry as Analyze reads it: TotalCost and GPUCost (the rest is CPUCost)
CostEntry(name, total, gpu) ==
    [Name |-> name, Namespace |-> "default", Node |-> "node-a",
     CPUCost |-> total - gpu, MemoryCost |-> 0, GPUCost |-> gpu,
     GPUCount |-> IF gpu > 0 THEN 1 ELSE 0, TotalCost |-> total,
     CPURequest |-> 0, MemRequest |-> 0, CPULimit |-> 0, MemLimit |-> 0]

\* TotalCost 100 dollars with GPUCost 80 or 70 dollars, and a free pod
OptCostShapes == {<<1000000, 800000>>, <<1000000, 700000>>, <<0, 0>>}

\* capacity and allocatable of the nodes given to Analyze
OptNodeShapes ==
    {<<Res(50, 16, None), Res(40, 15, None)>>,
     <<Res(40, 16, 1), Res(38, 15, 1)>>}

InitOpt ==
    /\ \E n \in 0..MaxPods :
        \E s \in [1..n -> OptPodShapes] :
            pods = [i \in 1..n |-> Pod(PodNames[i], s[i][1], s[i][2])]
    /\ \E n \in 0..MaxCosts :
        \E s \in [1..n -> OptCostShapes] :
            costs = [i \in 1..n |-> CostEntry(PodNames[i], s[i][1], s[i][2])]
    /\ \E n \in 0..MaxNodes :
        \E s \in [1..n -> OptNodeShapes] :
            nodes = [i \in 1..n |-> Node(NodeNames[i], s[i][1], s[i][2], "", "")]
    /\ pricing = DefaultPricing
    /\ results = <<>>
    /\ recommendations = <<>>
    /\ analysis = NoAnalysis
    /\ NoInvocation
    /\ pc = "start"

NextOpt == Analyze

SpecOpt == InitOpt /\ [][NextOpt]_vars

\* ------------------------------------------------------- optimizer: claims
Optimized == pc = "optimized"

\* the recommendations of one category about one pod or node, by position in the output
RecsOf(category, name) ==
    {k \in 1..Len(recommendations) :
        /\ recommendations[k].Category = category
        /\ recommendations[k].Title[2] = name}

\* the concatenation of the four heuristics in the order 1 over-provisioned, 2 missing
\* requests, 3 underutilized nodes, 4 expensive GPU
Concatenation ==
    findOverProvisionedPods(pods, costs)
        \o findPodsWithoutRequests(pods)
        \o findUnusedResources(nodes)
        \o findExpensiveGPUUsage(pods, costs)

\* the place of the i-th element of c in the stable descending sort of c by Savings
StablePlace(c, i) ==
    1 + Cardinality({j \in 1..Len(c) :
                        \/ c[j].Savings > c[i].Savings
                        \/ (c[j].Savings = c[i].Savings /\ j < i)})

\* C5: the list returned by Analyze is the stable descending-by-Savings sort of the
\* concatenation of the four heuristics: adjacent pairs descend, nothing is dropped,
\* merged or duplicated, and equal Savings keep their concatenation order.
C5_StableDescendingSort ==
    Optimized =>
        LET c == Concatenation
        IN
        /\ Len(recommendations) = Len(c)
        /\ \A i \in 1..Len(c) : recommendations[StablePlace(c, i)] = c[i]
        /\ \A k \in 1..(Len(recommendations) - 1) :
            recommendations[k].Savings >= recommendations[k + 1].Savings

\* the sort moved a recommendation forward and kept two different recommendations of
\* equal Savings in their concatenation order
C5_Witness ==
    /\ Optimized
    /\ recommendations # Concatenation
    /\ \E i, j \in 1..Len(Concatenation) :
        /\ i < j
        /\ Concatenation[i].Savings = Concatenation[j].Savings
        /\ Concatenation[i] # Concatenation[j]
        /\ StablePlace(Concatenation, j) = StablePlace(Concatenation, i) + 1

\* the containers of pods[i] that request more than 4 cores or more than 16 GiB
AboveThreshold(i) ==
    {k \in 1..Len(pods[i].Containers) :
        \/ Lookup(pods[i].Containers[k].Requests.cpu) > 40
        \/ Lookup(pods[i].Containers[k].Requests.memory) > 16}

\* C6: for each Running pod at index i within costs and each of its containers, a
\* High-priority Rightsizing recommendation with Savings = costs[i].TotalCost x 0.30 is
\* emitted if and only if the container requests more than 4 cores or more than 16 GiB
\* (a single container requesting 5 cores, whatever its memory request, yields one).
C6_RightsizingIffAboveThreshold ==
    Optimized =>
        \A i \in 1..Len(pods) :
            (pods[i].Phase = "Running" /\ i <= Len(costs)) =>
                /\ Cardinality(RecsOf("Rightsizing", pods[i].Name)) = Cardinality(AboveThreshold(i))
                /\ \A k \in RecsOf("Rightsizing", pods[i].Name) :
                    /\ recommendations[k].Savings = costs[i].TotalCost * 3
                    /\ recommendations[k].Priority = "High"

\* C7: for each Running pod at index i within costs whose summed GPU requests are > 0,
\* exactly one High-priority GPU recommendation with Savings = 0.5 x costs[i].GPUCost is
\* emitted if and only if costs[i].GPUCost > 0.7 x costs[i].TotalCost; non-Running pods
\* and pods with zero GPU request count yield none.
C7_ExpensiveGPU ==
    Optimized =>
        \A i \in 1..Len(pods) :
            LET requested == SumSeq([k \in 1..Len(pods[i].Containers) |->
                                        Lookup(pods[i].Containers[k].Requests.gpu)])
                recs == RecsOf("GPU", pods[i].Name)
            IN  /\ (pods[i].Phase = "Running" /\ requested > 0 /\ i <= Len(costs)) =>
                    /\ Cardinality(recs) = IF costs[i].GPUCost * 10 > costs[i].TotalCost * 7
                                           THEN 1 ELSE 0
                    /\ \A k \in recs :
                        /\ recommendations[k].Savings = costs[i].GPUCost * 5
                        /\ recommendations[k].Priority = "High"
                /\ (pods[i].Phase # "Running" \/ requested = 0) => recs = {}

\* GPUCost 80 of TotalCost 100 gives Savings 40, and GPUCost 70 of 100 gives none
C7_Witness ==
    /\ Optimized
    /\ \E i, j \in 1..Len(pods) :
        /\ i <= Len(costs) /\ j <= Len(costs)
        /\ pods[i].Phase = "Running" /\ RequestedGPUs(pods[i]) > 0
        /\ costs[i].GPUCost = 800000 /\ costs[i].TotalCost = 1000000
        /\ \E k \in RecsOf("GPU", pods[i].Name) : recommendations[k].Savings = 4000000
        /\ pods[j].Phase = "Running" /\ RequestedGPUs(pods[j]) > 0
        /\ costs[j].GPUCost = 700000 /\ costs[j].TotalCost = 1000000
        /\ RecsOf("GPU", pods[j].Name) = {}

\* C8: for each node whose allocatable CPU is more than 80% of its capacity CPU exactly
\* one Medium-priority Unused recommendation is emitted, with Savings = 50% of the
\* node's full capacity cost as CalculateNodeCost computes it (CPU + memory + GPU);
\* other nodes yield none.
C8_UnusedNodeSavings ==
    Optimized =>
        \A i \in 1..Len(nodes) :
            LET recs == RecsOf("Unused", nodes[i].Name)
            IN  IF Lookup(nodes[i].Allocatable.cpu) * 10 > Lookup(nodes[i].Capacity.cpu) * 8
                THEN /\ Cardinality(recs) = 1
                     /\ \A k \in recs :
                        /\ recommendations[k].Savings = CalculateNodeCost(DefaultPricing, nodes[i]) * 5
                        /\ recommendations[k].Priority = "Medium"
                ELSE recs = {}

\* the Running pods in which no container has a non-empty requests map
NoRequestPods ==
    {i \in 1..Len(pods) :
        /\ pods[i].Phase = "Running"
        /\ \A k \in 1..Len(pods[i].Containers) :
            /\ pods[i].Containers[k].Requests.cpu = None
            /\ pods[i].Containers[k].Requests.memory = None
            /\ pods[i].Containers[k].Requests.gpu = None}

BestPracticeRecs == {k \in 1..Len(recommendations) : recommendations[k].Category = "Best Practice"}

\* C9: with n the number of Running pods in which no container has a non-empty requests
\* map (pods without containers included), Analyze emits exactly one Medium-priority
\* Best Practice recommendation with Savings 0 and a description naming n when n > 0,
\* and none when n = 0; non-Running pods never count.
C9_MissingRequests ==
    Optimized =>
        LET n == Cardinality(NoRequestPods)
        IN  /\ n = 0 => BestPracticeRecs = {}
            /\ n > 0 =>
                /\ Cardinality(BestPracticeRecs) = 1
                /\ \A k \in BestPracticeRecs :
                    /\ recommendations[k].Savings = 0
                    /\ recommendations[k].Priority = "Medium"
                    /\ recommendations[k].Description[1] = n

\* one Running pod without containers or requests is counted beside a pod that is not
\* Running and has no requests either
C9_Witness ==
    /\ Optimized
    /\ Cardinality(NoRequestPods) = 1
    /\ \E i \in 1..Len(pods) :
        /\ pods[i].Phase # "Running"
        /\ \A k \in 1..Len(pods[i].Containers) : ~HasRequests(pods[i].Containers[k])
    /\ \E k \in BestPracticeRecs : recommendations[k].Description[1] = 1

\* ------------------------------------------------------------- GPU analyzer
\* variant: a node without a GPU allocatable entry counts all its GPUs as available
analyzeNodeDefaultAvailable(node) ==
    LET total == IF Present(node.Capacity.gpu) THEN node.Capacity.gpu ELSE 0
        hasAllocatable == Present(node.Allocatable.gpu)
        available == IF hasAllocatable THEN node.Allocatable.gpu ELSE total
    IN  [NodeName |-> node.Name,
         TotalGPUs |-> total,
         AllocatedGPUs |-> total - available,
         AvailableGPUs |-> available,
         GPUType |-> IF node.Labels.product # "" THEN node.Labels.product
                     ELSE IF node.Labels.accelerator # "" THEN node.Labels.accelerator
                     ELSE "Unknown"]

\* Analyzer.analyzeNode: TotalGPUs from Capacity; with an Allocatable entry AvailableGPUs
\* is that entry and AllocatedGPUs the difference; GPUType from the labels
analyzeNode(node) ==
    LET total == IF Present(node.Capacity.gpu) THEN node.Capacity.gpu ELSE 0
        hasAllocatable == Present(node.Allocatable.gpu)
        available == IF hasAllocatable THEN node.Allocatable.gpu ELSE 0
    IN  [NodeName |-> node.Name,
         TotalGPUs |-> total,
         AllocatedGPUs |-> IF hasAllocatable THEN total - available ELSE 0,
         AvailableGPUs |-> available,
         GPUType |-> IF node.Labels.product # "" THEN node.Labels.product
                     ELSE IF node.Labels.accelerator # "" THEN node.Labels.accelerator
                     ELSE "Unknown"]

analyzePod(pod) ==
    [PodName |-> pod.Name, Namespace |-> pod.Namespace, Node |-> pod.NodeName,
     GPUCount |-> SumQuantity(pod.Containers, "Requests", "gpu")
                    + SumQuantity(pod.Containers, "Limits", "gpu")]

\* the node loop of Analyze: the nodes with TotalGPUs > 0, in input order
RECURSIVE GPUNodes(_)
GPUNodes(ns) ==
    IF ns = <<>> THEN <<>>
    ELSE (IF analyzeNode(ns[1]).TotalGPUs > 0 THEN <<analyzeNode(ns[1])>> ELSE <<>>)
         \o GPUNodes(Tail(ns))

\* variant: every pod is retained
RECURSIVE GPUPodsAll(_)
GPUPodsAll(ps) ==
    IF ps = <<>> THEN <<>> ELSE <<analyzePod(ps[1])>> \o GPUPodsAll(Tail(ps))

\* the pod loop of Analyze: the pods with GPUCount > 0, in input order
RECURSIVE GPUPods(_)
GPUPods(ps) ==
    IF ps = <<>> THEN <<>>
    ELSE (IF analyzePod(ps[1]).GPUCount > 0 THEN <<analyzePod(ps[1])>> ELSE <<>>)
         \o GPUPods(Tail(ps))

\* UtilizationPct, a float64, as the exact fraction num / den
Pct(num, den) == [num |-> num, den |-> den]

PctBelow(u, n) == u.num < n * u.den

PctAbove(u, n) == u.num > n * u.den

PctAtLeast(u, n) == u.num >= n * u.den

\* variant: TotalGPUs is not looked at
LowUtilizationAnyTotal(a) == PctBelow(a.UtilizationPct, 50)

LowUtilization(a) == a.TotalGPUs > 0 /\ PctBelow(a.UtilizationPct, 50)

\* variant: 85% itself counts
HighUtilizationAtLeast(a) == PctAtLeast(a.UtilizationPct, 85)

HighUtilization(a) == PctAbove(a.UtilizationPct, 85)

\* fragmentedNodes > len(analysis.Nodes)/2, an integer division
Fragmented(a) ==
    Cardinality({k \in 1..Len(a.Nodes) :
                    a.Nodes[k].AllocatedGPUs > 0 /\ a.Nodes[k].AvailableGPUs > 0})
        > Len(a.Nodes) \div 2

NoGPUs(a) == a.TotalGPUs = 0

ManySingleGPUPods(a) ==
    Cardinality({k \in 1..Len(a.Pods) : a.Pods[k].GPUCount = 1}) > 2

MsgLow == "GPU utilization is below 50%."
MsgHigh == "GPU utilization is above 85%."
MsgFragmented == "Many nodes have partially allocated GPUs."
MsgNoGPUs == "No GPU resources detected."
MsgSingle == "Multiple pods requesting single GPUs."

generateRecommendations(a) ==
    (IF LowUtilization(a) THEN <<MsgLow>> ELSE <<>>)
        \o (IF HighUtilization(a) THEN <<MsgHigh>> ELSE <<>>)
        \o (IF Fragmented(a) THEN <<MsgFragmented>> ELSE <<>>)
        \o (IF NoGPUs(a) THEN <<MsgNoGPUs>> ELSE <<>>)
        \o (IF ManySingleGPUPods(a) THEN <<MsgSingle>> ELSE <<>>)

\* variant: the percentage of the available GPUs
UtilizationOfAvailable(allocated, total) ==
    IF total > 0 THEN Pct((total - allocated) * 100, total) ELSE Pct(0, 1)

\* UtilizationPct: (AllocatedGPUs / TotalGPUs) * 100 if TotalGPUs > 0, else the zero value
UtilizationOf(allocated, total) ==
    IF total > 0 THEN Pct(allocated * 100, total) ELSE Pct(0, 1)

\* Analyzer.Analyze up to the call of generateRecommendations
Report(ns, ps) ==
    LET reported  == GPUNodes(ns)
        total     == SumSeq([k \in 1..Len(reported) |-> reported[k].TotalGPUs])
        allocated == SumSeq([k \in 1..Len(reported) |-> reported[k].AllocatedGPUs])
    IN  [Nodes |-> reported,
         Pods |-> GPUPods(ps),
         TotalGPUs |-> total,
         AllocatedGPUs |-> allocated,
         AvailableGPUs |-> total - allocated,
         UtilizationPct |-> UtilizationOf(allocated, total),
         Recommendations |-> <<>>]

AnalyzeGPU ==
    /\ pc = "start"
    /\ analysis' = [Report(nodes, pods) EXCEPT
                        !.Recommendations = generateRecommendations(Report(nodes, pods))]
    /\ pc' = "analyzed"
    /\ UNCHANGED invocation
    /\ UNCHANGED <<pods, nodes, costs, pricing, results, recommendations>>

\* -------------------------------------------------- GPU analyzer: specification
\* GPU capacity and allocatable of a node, with its two labels
GPUNodeShapes ==
    {<<Res(40, 16, 2), Res(39, 15, 1), "Tesla-T4", "">>,
     <<Res(40, 16, 2), Res(39, 15, 2), "", "nvidia-a100">>,
     <<Res(40, 16, 2), Res(39, 15, 0), "", "">>,
     <<Res(40, 16, 2), Res(39, 15, None), "", "">>,
     <<Res(40, 16, 20), Res(39, 15, 3), "Tesla-T4", "gpu">>,
     <<Res(40, 16, 8), Res(39, 15, 2), "", "">>,
     <<Res(40, 16, None), Res(39, 15, None), "", "">>}

GPUPodShapes ==
    {<<"Running", <<Ctr(10, 2, 1, None, None, None)>>>>,
     <<"Running", <<Ctr(10, 2, 1, 10, 2, 1)>>>>,
     <<"Pending", <<Ctr(10, 2, None, None, None, None), Ctr(None, None, None, None, None, 1)>>>>,
     <<"Running", <<Ctr(10, 2, None, None, None, None)>>>>}

InitGPU ==
    /\ \E n \in 0..MaxGPUPods :
        \E s \in [1..n -> GPUPodShapes] :
            pods = [i \in 1..n |-> Pod(PodNames[i], s[i][1], s[i][2])]
    /\ \E n \in 0..MaxNodes :
        \E s \in [1..n -> GPUNodeShapes] :
            nodes = [i \in 1..n |-> Node(NodeNames[i], s[i][1], s[i][2], s[i][3], s[i][4])]
    /\ costs = <<>>
    /\ pricing = DefaultPricing
    /\ results = <<>>
    /\ recommendations = <<>>
    /\ analysis = NoAnalysis
    /\ NoInvocation
    /\ pc = "start"

NextGPU == AnalyzeGPU

SpecGPU == InitGPU /\ [][NextGPU]_vars

\* ----------------------------------------------------- GPU analyzer: claims
Analyzed == pc = "analyzed"

\* C10: the recommendation strings are exactly those whose condition holds, in the
\* fixed order (1) TotalGPUs > 0 and UtilizationPct < 50, (2) UtilizationPct > 85,
\* (3) the reported nodes with Allocated > 0 and Available > 0 number more than half of
\* the reported nodes, (4) TotalGPUs = 0, (5) more than 2 reported pods have GPUCount
\* exactly 1; each at most once, and the boundary values do not trigger.
C10_RecommendationsInOrder ==
    Analyzed =>
        LET a == analysis
            partial == {k \in 1..Len(a.Nodes) :
                            a.Nodes[k].AllocatedGPUs > 0 /\ a.Nodes[k].AvailableGPUs > 0}
            single == {k \in 1..Len(a.Pods) : a.Pods[k].GPUCount = 1}
            rule1 == a.TotalGPUs > 0 /\ a.UtilizationPct.num < 50 * a.UtilizationPct.den
            rule2 == a.UtilizationPct.num > 85 * a.UtilizationPct.den
            rule3 == 2 * Cardinality(partial) > Len(a.Nodes)
            rule4 == a.TotalGPUs = 0
            rule5 == Cardinality(single) > 2
        IN  a.Recommendations =
                (IF rule1 THEN <<"GPU utilization is below 50%.">> ELSE <<>>)
                \o (IF rule2 THEN <<"GPU utilization is above 85%.">> ELSE <<>>)
                \o (IF rule3 THEN <<"Many nodes have partially allocated GPUs.">> ELSE <<>>)
                \o (IF rule4 THEN <<"No GPU resources detected.">> ELSE <<>>)
                \o (IF rule5 THEN <<"Multiple pods requesting single GPUs.">> ELSE <<>>)

\* utilization exactly 85 with one partially allocated node and three single-GPU pods:
\* rules 3 and 5 fire, rule 2 does not
C10_Witness ==
    /\ Analyzed
    /\ analysis.TotalGPUs = 20
    /\ analysis.AllocatedGPUs = 17
    /\ Cardinality({k \in 1..Len(analysis.Pods) : analysis.Pods[k].GPUCount = 1}) = 3
    /\ analysis.Recommendations =
        <<"Many nodes have partially allocated GPUs.", "Multiple pods requesting single GPUs.">>

\* the exact value of UtilizationPct is n: num / den = n
PctIs(u, n) == u.num = n * u.den

\* C11: UtilizationPct equals AllocatedGPUs / TotalGPUs x 100 when TotalGPUs > 0 (Total
\* 8, Allocated 6 gives 75) and equals 0 when TotalGPUs = 0, with no division by zero.
C11_UtilizationPct ==
    Analyzed =>
        /\ analysis.UtilizationPct.den # 0
        /\ analysis.TotalGPUs > 0 =>
            analysis.UtilizationPct.num * analysis.TotalGPUs
                = analysis.AllocatedGPUs * 100 * analysis.UtilizationPct.den
        /\ analysis.TotalGPUs = 0 => PctIs(analysis.UtilizationPct, 0)
        /\ (analysis.TotalGPUs = 8 /\ analysis.AllocatedGPUs = 6) => PctIs(analysis.UtilizationPct, 75)

\* one node with 8 GPUs of which 6 are allocated: 75 percent
C11_Witness ==
    /\ Analyzed
    /\ Len(analysis.Nodes) = 1
    /\ analysis.TotalGPUs = 8
    /\ analysis.AllocatedGPUs = 6
    /\ PctIs(analysis.UtilizationPct, 75)

\* only nodes without GPU capacity: nothing to divide by, utilization 0
C11_WitnessNoGPUs ==
    /\ Analyzed
    /\ Len(nodes) > 0
    /\ analysis.TotalGPUs = 0
    /\ PctIs(analysis.UtilizationPct, 0)

\* the input node a reported NodeGPU was computed from (nodes are named by position)
NodeIndexOf(g) == CHOOSE i \in 1..Len(nodes) : nodes[i].Name = g.NodeName

\* C12: for every NodeGPU: if the node reports a GPU allocatable entry then TotalGPUs =
\* AllocatedGPUs + AvailableGPUs, AvailableGPUs is the allocatable count and
\* AllocatedGPUs is capacity minus allocatable; if the entry is absent then
\* AllocatedGPUs = 0 and AvailableGPUs = 0 whatever the capacity.
C12_NodeGPUAccounting ==
    Analyzed =>
        \A k \in 1..Len(analysis.Nodes) :
            LET g == analysis.Nodes[k]
                node == nodes[NodeIndexOf(g)]
            IN  IF node.Allocatable.gpu # None
                THEN /\ g.TotalGPUs = g.AllocatedGPUs + g.AvailableGPUs
                     /\ g.AvailableGPUs = node.Allocatable.gpu
                     /\ g.AllocatedGPUs = Lookup(node.Capacity.gpu) - node.Allocatable.gpu
                ELSE /\ g.AllocatedGPUs = 0
                     /\ g.AvailableGPUs = 0

\* a reported node with capacity 2 and no allocatable entry beside one with both entries
C12_Witness ==
    /\ Analyzed
    /\ \E k, l \in 1..Len(analysis.Nodes) :
        /\ nodes[NodeIndexOf(analysis.Nodes[k])].Allocatable.gpu = None
        /\ analysis.Nodes[k].TotalGPUs = 2
        /\ analysis.Nodes[k].AvailableGPUs = 0
        /\ nodes[NodeIndexOf(analysis.Nodes[l])].Allocatable.gpu = 1
        /\ analysis.Nodes[l].AllocatedGPUs = 1

GPUCapacityIndexes == {i \in 1..Len(nodes) : Lookup(nodes[i].Capacity.gpu) > 0}

\* the GPU count of pods[i]: requests plus limits over its containers
PodGPUCount(i) ==
    SumSeq([k \in 1..Len(pods[i].Containers) |->
                Lookup(pods[i].Containers[k].Requests.gpu)
                    + Lookup(pods[i].Containers[k].Limits.gpu)])

GPUPodIndexes == {i \in 1..Len(pods) : PodGPUCount(i) > 0}

\* s lists, in increasing order of index, exactly the names of the indexes in keep
ListsInOrder(s, names, keep) ==
    /\ Len(s) = Cardinality(keep)
    /\ \A k \in 1..Len(s) :
        \E i \in keep :
            /\ names[i] = s[k]
            /\ Cardinality({j \in keep : j < i}) = k - 1

\* C13: Nodes holds, in input order, exactly the input nodes with GPU capacity > 0, and
\* Pods, in input order, exactly the input pods with GPU count > 0; TotalGPUs and
\* AllocatedGPUs are the sums over the retained nodes only.
C13_RetainedNodesAndPods ==
    Analyzed =>
        /\ ListsInOrder([k \in 1..Len(analysis.Nodes) |-> analysis.Nodes[k].NodeName],
                        [i \in 1..Len(nodes) |-> nodes[i].Name], GPUCapacityIndexes)
        /\ ListsInOrder([k \in 1..Len(analysis.Pods) |-> analysis.Pods[k].PodName],
                        [i \in 1..Len(pods) |-> pods[i].Name], GPUPodIndexes)
        /\ analysis.TotalGPUs =
            SumSeq([i \in 1..Len(nodes) |->
                        IF i \in GPUCapacityIndexes THEN nodes[i].Capacity.gpu ELSE 0])
        /\ analysis.AllocatedGPUs =
            SumSeq([i \in 1..Len(nodes) |->
                        IF i \in GPUCapacityIndexes /\ nodes[i].Allocatable.gpu # None
                        THEN nodes[i].Capacity.gpu - nodes[i].Allocatable.gpu ELSE 0])

\* a node without GPU capacity and a pod without GPUs are dropped, later ones are kept
C13_Witness ==
    /\ Analyzed
    /\ Len(nodes) = 2 /\ Len(analysis.Nodes) = 1
    /\ analysis.Nodes[1].NodeName = nodes[2].Name
    /\ Len(pods) = 3 /\ Len(analysis.Pods) = 2
    /\ analysis.Pods[1].PodName = pods[2].Name
    /\ analysis.Pods[2].PodName = pods[3].Name

\* the GPUCount the analyzer reported for pods[i]: a pod that was dropped had count 0
ReportedGPUCount(i) ==
    IF \E k \in 1..Len(analysis.Pods) : analysis.Pods[k].PodName = pods[i].Name
    THEN analysis.Pods[CHOOSE k \in 1..Len(analysis.Pods) :
                            analysis.Pods[k].PodName = pods[i].Name].GPUCount
    ELSE 0

C15_GPUFromRequestsOnly ==
    Costed =>
        \A k \in 1..Len(results) :
            LET pod == pods[PodIndexOf(results[k])]
                requested == SumSeq([c \in 1..Len(pod.Containers) |->
                                        Lookup(pod.Containers[c].Requests.gpu)])
            IN  /\ results[k].GPUCount = requested
                /\ results[k].GPUCost = requested * 10 * pricing.GPUHourlyCost * HoursPerMonth

\* C19: entries with equal TotalCost keep the order their pods had in the input.
C19_TiesKeepInputOrder ==
    Costed =>
        \A k, l \in 1..Len(results) :
            (k < l /\ results[k].TotalCost = results[l].TotalCost)
                => PodIndexOf(results[k]) < PodIndexOf(results[l])

\* ------------------------------------------------------------ pricing model
\* the four conversions of one Pricing applied to a quantity q and to k times q (CPU in
\* tenths of a core, memory and storage in GiB, GPU in devices)
PriceQuantity ==
    /\ pc = "start"
    /\ \E q \in 0..MaxQuantity :
        \E k \in 0..MaxScale :
            results' = <<[Quantity |-> q, Scale |-> k,
                          CPU |-> CalculateCPUCost(pricing, q),
                          CPUScaled |-> CalculateCPUCost(pricing, k * q),
                          Memory |-> CalculateMemoryCost(pricing, q),
                          MemoryScaled |-> CalculateMemoryCost(pricing, k * q),
                          GPU |-> CalculateGPUCost(pricing, q),
                          GPUScaled |-> CalculateGPUCost(pricing, k * q),
                          Storage |-> CalculateStorageCost(pricing, q),
                          StorageScaled |-> CalculateStorageCost(pricing, k * q)]>>
    /\ pc' = "priced"
    /\ UNCHANGED invocation
    /\ UNCHANGED <<pods, nodes, costs, pricing, recommendations, analysis>>

InitPricing ==
    /\ pricing \in {DefaultPricing, GCPPricing, AzurePricing}
    /\ pods = <<>>
    /\ nodes = <<>>
    /\ costs = <<>>
    /\ results = <<>>
    /\ recommendations = <<>>
    /\ analysis = NoAnalysis
    /\ NoInvocation
    /\ pc = "start"

NextPricing == PriceQuantity

SpecPricing == InitPricing /\ [][NextPricing]_vars

Priced == pc = "priced"

C16_WitnessZero ==
    /\ Priced
    /\ results[1].Quantity = 0
    /\ results[1].Scale = 4
    /\ results[1].GPU = 0 /\ results[1].GPUScaled = 0

\* ------------------------------------------- optimizer: short and absent inputs
\* pods given to Analyze: over-provisioned with a GPU request, without containers,
\* without requests
EdgePodShapes ==
    {<<"Running", <<Ctr(50, 8, 1, None, None, None)>>>>,
     <<"Running", <<>>>>,
     <<"Running", <<Ctr(None, None, None, 10, 4, None)>>>>}

\* nodes given to Analyze: no capacity and no allocatable entries, capacity entries only,
\* all entries
EdgeNodeShapes ==
    {<<Res(None, None, None), Res(None, None, None)>>,
     <<Res(40, 16, None), Res(None, None, None)>>,
     <<Res(40, 16, 1), Res(38, 15, 1)>>}

InitOptEdge ==
    /\ \E n \in 0..MaxPods :
        \E s \in [1..n -> EdgePodShapes] :
            pods = [i \in 1..n |-> Pod(PodNames[i], s[i][1], s[i][2])]
    /\ \E n \in 0..MaxCosts :
        \E s \in [1..n -> OptCostShapes] :
            costs = [i \in 1..n |-> CostEntry(PodNames[i], s[i][1], s[i][2])]
    /\ \E n \in 0..MaxNodes :
        \E s \in [1..n -> EdgeNodeShapes] :
            nodes = [i \in 1..n |-> Node(NodeNames[i], s[i][1], s[i][2], "", "")]
    /\ pricing = DefaultPricing
    /\ results = <<>>
    /\ recommendations = <<>>
    /\ analysis = NoAnalysis
    /\ NoInvocation
    /\ pc = "start"

NextOptEdge == Analyze

SpecOptEdge == InitOptEdge /\ [][NextOptEdge]_vars

\* C17: Analyze returns a list for pods, nodes and costs of any lengths (costs shorter
\* than pods or empty, pods without containers, nodes without capacity or allocatable
\* entries); a pod whose index is beyond costs yields no Rightsizing and no GPU
\* recommendation; with no pods, no nodes and no costs the list is empty.
C17_AnalyzeNeverFails ==
    Optimized =>
        /\ \A i \in 1..Len(pods) :
            i > Len(costs) =>
                /\ RecsOf("Rightsizing", pods[i].Name) = {}
                /\ RecsOf("GPU", pods[i].Name) = {}
        /\ (pods = <<>> /\ nodes = <<>> /\ costs = <<>>) => recommendations = <<>>

\* an over-provisioned GPU pod at index 2 with a single cost entry, beside a pod without
\* containers and a node without entries: only the missing-requests advice comes out
C17_Witness ==
    /\ Optimized
    /\ Len(pods) = 2 /\ Len(costs) = 1 /\ Len(nodes) = 1
    /\ pods[1].Containers = <<>>
    /\ Len(pods[2].Containers) = 1
    /\ OverProvisioned(pods[2].Containers[1])
    /\ RequestedGPUs(pods[2]) > 0
    /\ nodes[1].Capacity.cpu = None /\ nodes[1].Allocatable.cpu = None
    /\ Len(recommendations) = 1
    /\ recommendations[1].Category = "Best Practice"

\* nothing in, nothing out
C17_WitnessEmpty ==
    /\ Optimized
    /\ pods = <<>> /\ nodes = <<>> /\ costs = <<>>
    /\ recommendations = <<>>

\* ------------------------------------------------------- the optimize command
\* runOptimize once the pods and the nodes are fetched: the costs of the default
\* calculator, then the optimizer on the fetched pods and those costs
runOptimize ==
    /\ pc = "start"
    /\ costs' \in SortSlice(AppendCosts(DefaultPricing, pods))
    /\ recommendations' = sortRecommendationsBySavings(Heuristics(pods, nodes, costs'))
    /\ pc' = "optimized"
    /\ UNCHANGED invocation
    /\ UNCHANGED <<pods, nodes, pricing, results, analysis>>

InitPipeline ==
    /\ \E n \in 0..MaxPods :
        \E s \in [1..n -> OptPodShapes] :
            pods = [i \in 1..n |-> Pod(PodNames[i], s[i][1], s[i][2])]
    /\ \E n \in 0..MaxNodes :
        \E s \in [1..n -> OptNodeShapes] :
            nodes = [i \in 1..n |-> Node(NodeNames[i], s[i][1], s[i][2], "", "")]
    /\ costs = <<>>
    /\ pricing = DefaultPricing
    /\ results = <<>>
    /\ recommendations = <<>>
    /\ analysis = NoAnalysis
    /\ NoInvocation
    /\ pc = "start"

NextPipeline == runOptimize

SpecPipeline == InitPipeline /\ [][NextPipeline]_vars

\* C20: in the optimize command, for every pod index i that produced a Rightsizing or a
\* GPU recommendation, costs[i] is the cost entry of pods[i] itself, and the Savings is
\* 0.30 x that pod's own TotalCost, resp. 0.5 x its own GPUCost.
C20_CostsAlignedWithPods ==
    Optimized =>
        \A i \in 1..Len(pods) :
            LET own == calculatePodCost(pricing, pods[i])
            IN  /\ \A k \in RecsOf("Rightsizing", pods[i].Name) :
                    /\ i <= Len(costs)
                    /\ costs[i].Name = pods[i].Name
                    /\ recommendations[k].Savings = own.TotalCost * 3
                /\ \A k \in RecsOf("GPU", pods[i].Name) :
                    /\ i <= Len(costs)
                    /\ costs[i].Name = pods[i].Name
                    /\ recommendations[k].Savings = own.GPUCost * 5

\* C22: the cluster-wide AvailableGPUs equals the sum of AvailableGPUs over the reported
\* nodes, and TotalGPUs and AllocatedGPUs equal the sums of the per-node values.
C22_ClusterEqualsNodeSums ==
    Analyzed =>
        LET reported == analysis.Nodes
        IN  /\ analysis.AvailableGPUs =
                SumSeq([k \in 1..Len(reported) |-> reported[k].AvailableGPUs])
            /\ analysis.TotalGPUs =
                SumSeq([k \in 1..Len(reported) |-> reported[k].TotalGPUs])
            /\ analysis.AllocatedGPUs =
                SumSeq([k \in 1..Len(reported) |-> reported[k].AllocatedGPUs])

\* the string msg is among the recommendations of the report
Emitted(msg) == \E k \in 1..Len(analysis.Recommendations) : analysis.Recommendations[k] = msg

\* C23: at most one of the recommendations 'below 50%', 'above 85%' and 'No GPU
\* resources detected' is emitted, and 'No GPU resources detected' is never emitted
\* together with the fragmentation recommendation: only the single-GPU-pods
\* recommendation can accompany it.
C23_ExclusiveRecommendations ==
    Analyzed =>
        /\ Cardinality({m \in {MsgLow, MsgHigh, MsgNoGPUs} : Emitted(m)}) <= 1
        /\ ~(Emitted(MsgNoGPUs) /\ Emitted(MsgFragmented))
        /\ Emitted(MsgNoGPUs) =>
            \A k \in 1..Len(analysis.Recommendations) :
                analysis.Recommendations[k] \in {MsgNoGPUs, MsgSingle}

\* nodes without GPU capacity and three single-GPU pods: rule 4 accompanied by rule 5
C23_Witness ==
    /\ Analyzed
    /\ Len(nodes) = 2
    /\ analysis.TotalGPUs = 0
    /\ analysis.Recommendations = <<MsgNoGPUs, MsgSingle>>

\* a fully allocated cluster: rule 2 alone among rules 1, 2 and 4
C23_WitnessHigh ==
    /\ Analyzed
    /\ analysis.TotalGPUs > 0
    /\ Emitted(MsgHigh)
    /\ ~Emitted(MsgLow) /\ ~Emitted(MsgNoGPUs)

\* ------------------------------------------------------------- the commands
\* the analyze, gpu and optimize commands step by step: kubernetes.NewClient, the two
\* fetches in the order of the command, then the core; printing is not modelled
Commands == {"analyze", "gpu", "optimize"}

ErrClient == "failed to create kubernetes client"
ErrPods == "failed to get pods"
ErrNodes == "failed to get nodes"

\* variant: the error of a step is recorded but the command goes on
ProceedDespiteError(ok, next) == next

\* if err != nil { return fmt.Errorf(...) }: where the command is after a step
Proceed(ok, next) == IF ok THEN next ELSE "returned"

\* runAnalyze and runOptimize fetch the pods first, runGPU fetches the nodes first
PodsFirst == command \in {"analyze", "optimize"}

\* where the command is after its first and after its second fetch
AfterFetch == IF pc = "client" THEN "one" ELSE "fetched"

NewClient ==
    /\ pc = "start"
    /\ calls' = Append(calls, "NewClient")
    /\ \E ok \in BOOLEAN :
        /\ err' = IF ok THEN err ELSE ErrClient
        /\ pc' = Proceed(ok, "client")
    /\ UNCHANGED <<pods, nodes, costs, pricing, results, recommendations, analysis,
                   command, cluster>>

GetPods ==
    /\ pc = IF PodsFirst THEN "client" ELSE "one"
    /\ calls' = Append(calls, "GetPods")
    /\ \E ok \in BOOLEAN :
        /\ pods' = IF ok THEN cluster.pods ELSE pods
        /\ err' = IF ok THEN err ELSE ErrPods
        /\ pc' = Proceed(ok, AfterFetch)
    /\ UNCHANGED <<nodes, costs, pricing, results, recommendations, analysis,
                   command, cluster>>

GetNodes ==
    /\ pc = IF PodsFirst THEN "one" ELSE "client"
    /\ calls' = Append(calls, "GetNodes")
    /\ \E ok \in BOOLEAN :
        /\ nodes' = IF ok THEN cluster.nodes ELSE nodes
        /\ err' = IF ok THEN err ELSE ErrNodes
        /\ pc' = Proceed(ok, AfterFetch)
    /\ UNCHANGED <<pods, costs, pricing, results, recommendations, analysis,
                   command, cluster>>

\* results[:topN] if topN > 0 && len(results) > topN
TopN(r, topN) == IF topN > 0 /\ Len(r) > topN THEN SubSeq(r, 1, topN) ELSE r

\* runAnalyze after the fetches: the costs of the default calculator, cut to --top
analyzeCore ==
    /\ command = "analyze"
    /\ calls' = Append(calls, "CalculatePodCosts")
    /\ \E r \in SortSlice(AppendCosts(DefaultPricing, pods)) :
        \E topN \in 0..MaxTopN : results' = TopN(r, topN)
    /\ UNCHANGED <<costs, recommendations, analysis>>

\* runGPU after the fetches
gpuCore ==
    /\ command = "gpu"
    /\ calls' = Append(calls, "Analyzer.Analyze")
    /\ analysis' = [Report(nodes, pods) EXCEPT
                        !.Recommendations = generateRecommendations(Report(nodes, pods))]
    /\ UNCHANGED <<costs, results, recommendations>>

\* runOptimize after the fetches
optimizeCore ==
    /\ command = "optimize"
    /\ calls' = calls \o <<"CalculatePodCosts", "Optimizer.Analyze">>
    /\ costs' \in SortSlice(AppendCosts(DefaultPricing, pods))
    /\ recommendations' = sortRecommendationsBySavings(Heuristics(pods, nodes, costs'))
    /\ UNCHANGED <<results, analysis>>

InvokeCore ==
    /\ pc = "fetched"
    /\ (analyzeCore \/ gpuCore \/ optimizeCore)
    /\ pc' = "returned"
    /\ UNCHANGED <<pods, nodes, pricing, command, cluster, err>>

\* what the cluster holds: pods (phase, containers) and nodes (capacity, allocatable)
CmdPodShapes ==
    {<<"Running", <<Ctr(50, 8, 1, None, None, None)>>>>,
     <<"Pending", <<Ctr(10, 2, None, None, None, 1)>>>>}

CmdNodeShapes ==
    {<<Res(40, 16, 2), Res(38, 15, 1)>>,
     <<Res(40, 16, None), Res(38, 15, None)>>}

InitCommand ==
    /\ command \in Commands
    /\ \E n \in 0..MaxPods :
        \E s \in [1..n -> CmdPodShapes] :
            \E k \in 0..MaxNodes :
                \E t \in [1..k -> CmdNodeShapes] :
                    cluster = [pods |-> [i \in 1..n |-> Pod(PodNames[i], s[i][1], s[i][2])],
                               nodes |-> [i \in 1..k |->
                                            Node(NodeNames[i], t[i][1], t[i][2], "", "")]]
    /\ calls = <<>>
    /\ err = ""
    /\ pods = <<>>
    /\ nodes = <<>>
    /\ costs = <<>>
    /\ pricing = DefaultPricing
    /\ results = <<>>
    /\ recommendations = <<>>
    /\ analysis = NoAnalysis
    /\ pc = "start"

NextCommand == NewClient \/ GetPods \/ GetNodes \/ InvokeCore

SpecCommand == InitCommand /\ [][NextCommand]_vars

CoreCalls == {"CalculatePodCosts", "Analyzer.Analyze", "Optimizer.Analyze"}

\* the positions of the calls of the core in the calls made so far
CoreInvoked == {k \in 1..Len(calls) : calls[k] \in CoreCalls}

\* the step whose failure an error reports
FailedStep(e) ==
    IF e = ErrClient THEN "NewClient" ELSE IF e = ErrPods THEN "GetPods" ELSE "GetNodes"

\* C21: in each command the core is invoked only after client creation, the pod fetch
\* and the node fetch have all succeeded; if one of the three fails the command returns
\* an error, no later fetch is attempted, the core is never invoked and no result,
\* summary or recommendation is produced.
C21_CoreOnlyAfterFetches ==
    /\ \A k \in CoreInvoked :
        /\ \A step \in {"NewClient", "GetPods", "GetNodes"} :
            \E j \in 1..(k - 1) : calls[j] = step
        /\ err = ""
        /\ pods = cluster.pods
        /\ nodes = cluster.nodes
    /\ err # "" =>
        /\ pc = "returned"
        /\ calls[Len(calls)] = FailedStep(err)
        /\ \A j \in 1..(Len(calls) - 1) : calls[j] # FailedStep(err)
        /\ CoreInvoked = {}
        /\ results = <<>> /\ costs = <<>> /\ recommendations = <<>>
        /\ analysis = NoAnalysis
    /\ (pc = "returned" /\ err = "") => CoreInvoked # {}

\* the gpu command whose pod fetch failed after the node fetch succeeded
C21_Witness ==
    /\ command = "gpu"
    /\ pc = "returned"
    /\ calls = <<"NewClient", "GetNodes", "GetPods">>
    /\ err = ErrPods
    /\ Len(cluster.pods) > 0 /\ pods = <<>>
    /\ nodes = cluster.nodes /\ Len(nodes) > 0
    /\ analysis = NoAnalysis

\* the optimize command with all three steps succeeding and a recommendation produced
C21_WitnessSuccess ==
    /\ command = "optimize"
    /\ pc = "returned"
    /\ err = ""
    /\ calls = <<"NewClient", "GetPods", "GetNodes", "CalculatePodCosts", "Optimizer.Analyze">>
    /\ Len(recommendations) > 0

====
